---- MODULE Spec2Model ----
(***************************************************************************)
(* Two-player, one-token Ludo of src/src/App.jsx.                          *)
(*                                                                         *)
(* The state is the four useState cells of App (positions, current, die,  *)
(* message).  One step of the model is one invocation of an event handler *)
(* (rollDie or resetGame) together with the commit of the state updates   *)
(* it queued and the render that follows: React applies the queued        *)
(* updates of a click handler in one batch and renders App again before   *)
(* it dispatches the next event.                                           *)
(*                                                                         *)
(* rendered is the snapshot of positions and current that the closures    *)
(* rollDie and handleMoveTo of the latest render read (positions[current] *)
(* and current are read from the closure; the updaters prev => ... and    *)
(* c => 1 - c read the state itself).                                      *)
(*                                                                         *)
(* In Spec and SpecRolls rollDie is enabled in every state: the function  *)
(* has a branch for a current player who is already home (pos === 999).   *)
(* SpecView adds the guard of the view, which disables the Die button     *)
(* while the current player is home.                                       *)
(*                                                                         *)
(* val records the value drawn by Math.random in the most recent rollDie  *)
(* (NULL when the most recent operation was not a roll); the code sets    *)
(* die back to null after most moves, so die alone does not tell which    *)
(* value a roll resolved.                                                  *)
(***************************************************************************)
EXTENDS Integers, Sequences, FiniteSets, TLC

VARIABLES positions, current, die, message, val, rendered

vars == <<positions, current, die, message, val, rendered>>

----------------------------------------------------------------------------
(* Constants of the program *)

\* PATH.length: the 28 track cells
PathLength == 28

\* positions: -1 = base
BASE == -1

\* positions: 999 = home
HOME == 999

\* null (die before any roll, die cleared after a move)
NULL == 0

\* Math.floor(Math.random() * 6) + 1
DieFaces == 6

Players == {0, 1}

DieValues == 1..DieFaces

TrackIndices == 0..(PathLength - 1)

\* variant: both players enter on cell 0
START_INDEX_Shared == [p \in {0, 1} |-> 0]

START_INDEX == [p \in Players |-> IF p = 0 THEN 0 ELSE 14]

COLORS == [p \in Players |-> IF p = 0 THEN "Red" ELSE "Blue"]

OnTrack(pos) == pos # BASE /\ pos # HOME

----------------------------------------------------------------------------
(* Messages: the template of the string, and the colour names put in it *)

Msg(kind, name, other) == [kind |-> kind, name |-> name, other |-> other]

WelcomeMessage == Msg("welcome", "Red", "")

NewGameMessage == Msg("new_game", "Red", "")

NeedsSixMessage(c) == Msg("needs_six", COLORS[c], "")

AlreadyHomeMessage(c) == Msg("already_home", COLORS[c], "")

CapturedMessage(c) == Msg("captured", COLORS[c], COLORS[1 - c])

WinsMessage(c) == Msg("reached_home_wins", COLORS[c], "")

SixAgainMessage(c) == Msg("rolled_six_again", COLORS[c], "")

----------------------------------------------------------------------------
(* Helpers of the handlers *)

\* endTurn: setCurrent(c => 1 - c)
endTurn(c) == 1 - c

\* variant: the move does not wrap around the track
newIndexNoWrap(pos, v) == pos + v

\* let newIndex = (pos + val) % PATH.length
newIndex(pos, v) == (pos + v) % PathLength

\* variant: a move that passes over the start cell also goes home
trackTargetOvershoot(pos, v, c) ==
    IF \E k \in 1..v : newIndex(pos, k) = START_INDEX[c]
    THEN HOME
    ELSE newIndex(pos, v)

\* the target rollDie hands to handleMoveTo for a token on the track
trackTarget(pos, v, c) ==
    IF newIndex(pos, v) = START_INDEX[c] /\ pos # BASE
    THEN HOME
    ELSE newIndex(pos, v)

\* variant: the opponent is captured wherever it stands on the track
capturesAnywhere(prev, c, targetIndex) ==
    /\ targetIndex # BASE
    /\ targetIndex # HOME
    /\ prev[1 - c] # BASE
    /\ prev[1 - c] # HOME

\* the condition under which the setPositions updater captures
captures(prev, c, targetIndex) ==
    /\ targetIndex # BASE
    /\ targetIndex # HOME
    /\ prev[1 - c] = targetIndex

\* variant: the updater without the capture logic
updatedPositionsNoCapture(prev, c, targetIndex) ==
    [prev EXCEPT ![c] = targetIndex]

\* variant: an occupied target cell blocks the move
updatedPositionsBlocked(prev, c, targetIndex) ==
    IF captures(prev, c, targetIndex)
    THEN prev
    ELSE [prev EXCEPT ![c] = targetIndex]

\* the setPositions updater of handleMoveTo
updatedPositions(prev, c, targetIndex) ==
    LET opponent == 1 - c
        afterCapture == IF captures(prev, c, targetIndex)
                        THEN [prev EXCEPT ![opponent] = BASE]
                        ELSE prev
    IN [afterCapture EXCEPT ![c] = targetIndex]

\* variant: the six-again message replaces the capture message
moveMessageSixLast(old, prev, c, targetIndex, dieVal) ==
    IF targetIndex = HOME THEN WinsMessage(c)
    ELSE IF dieVal = 6 THEN SixAgainMessage(c)
    ELSE IF captures(prev, c, targetIndex) THEN CapturedMessage(c)
    ELSE old

\* The message left by handleMoveTo.  The handler queues its own setMessage
\* calls (win, six-again); the capture setMessage is issued from inside the
\* setPositions updater.  On a capturing 6 rollDie has already queued
\* setDie(6) with die # 6 (die is 6 only after a win or a pass by a home
\* player, and then no token can be captured), so React does not run the
\* updater eagerly but when it processes the queue of positions in the
\* following render, and the capture message is applied after the
\* six-again message.  On any other capture it is the only message set.
moveMessage(old, prev, c, targetIndex, dieVal) ==
    LET fromHandler == IF targetIndex = HOME THEN WinsMessage(c)
                       ELSE IF dieVal = 6 THEN SixAgainMessage(c)
                       ELSE old
    IN IF captures(prev, c, targetIndex) THEN CapturedMessage(c) ELSE fromHandler

\* variant: the win check does not return before endTurn()
moveEndsTurnOnWin(targetIndex, dieVal) == dieVal # 6

\* whether handleMoveTo reaches endTurn()
moveEndsTurn(targetIndex, dieVal) == targetIndex # HOME /\ dieVal # 6

\* variant: handleMoveTo never clears the die
moveDieKeep(targetIndex, dieVal) == dieVal

\* the die shown after handleMoveTo: setDie(val) of rollDie stands on a win,
\* setDie(null) follows otherwise
moveDie(targetIndex, dieVal) == IF targetIndex = HOME THEN dieVal ELSE NULL

----------------------------------------------------------------------------
(* Handlers *)

\* variant: the handlers keep the closure of an earlier render
renderStale == UNCHANGED rendered

\* App runs again on the committed state and hands the Die and the Reset
\* button the handlers of this render
render == rendered' = [positions |-> positions', current |-> current']

handleMoveTo(targetIndex, dieVal) ==
    /\ positions' = updatedPositions(positions, rendered.current, targetIndex)
    /\ message' = moveMessage(message, positions, rendered.current, targetIndex, dieVal)
    /\ current' = IF moveEndsTurn(targetIndex, dieVal) THEN endTurn(current) ELSE current
    /\ die' = moveDie(targetIndex, dieVal)

passTurn(msg, v) ==
    /\ message' = msg
    /\ current' = endTurn(current)
    /\ die' = v
    /\ UNCHANGED positions

\* variant: a token leaves base on a 1 as well as on a 6
rollBranchEnterOnOne(pos, v) ==
    IF pos = BASE
    THEN IF v = 6 \/ v = 1 THEN "enter" ELSE "needs_six"
    ELSE IF pos = HOME THEN "already_home"
    ELSE "move"

\* variant: the branch for a token that is already home is missing
rollBranchNoHomeCheck(pos, v) ==
    IF pos = BASE
    THEN IF v = 6 THEN "enter" ELSE "needs_six"
    ELSE "move"

\* the branch rollDie takes for the current player's position and the value
rollBranch(pos, v) ==
    IF pos = BASE
    THEN IF v = 6 THEN "enter" ELSE "needs_six"
    ELSE IF pos = HOME THEN "already_home"
    ELSE "move"

rollDie ==
    \E v \in DieValues :
        /\ val' = v
        /\ LET c == rendered.current
               pos == rendered.positions[c]
               branch == rollBranch(pos, v)
           IN CASE branch = "enter" -> handleMoveTo(START_INDEX[c], v)
                [] branch = "needs_six" -> passTurn(NeedsSixMessage(c), v)
                [] branch = "already_home" -> passTurn(AlreadyHomeMessage(c), v)
                [] branch = "move" -> handleMoveTo(trackTarget(pos, v, c), v)
        /\ render

\* variant: reset keeps the player to move
resetGameKeepsTurn ==
    /\ positions' = [p \in Players |-> BASE]
    /\ current' = current
    /\ die' = NULL
    /\ message' = NewGameMessage
    /\ val' = NULL
    /\ render

resetGame ==
    /\ positions' = [p \in Players |-> BASE]
    /\ current' = 0
    /\ die' = NULL
    /\ message' = NewGameMessage
    /\ val' = NULL
    /\ render

Init ==
    /\ positions = [p \in Players |-> BASE]
    /\ current = 0
    /\ die = NULL
    /\ message = WelcomeMessage
    /\ val = NULL
    /\ rendered = [positions |-> positions, current |-> current]

Next == rollDie \/ resetGame

\* the Die button is enabled: disabled={positions[current] === 999}
canRoll == rendered.positions[rendered.current] # HOME

\* a click on the Die button
rollDieClick == canRoll /\ rollDie

NextView == rollDieClick \/ resetGame

\* the handlers as the view can invoke them: rolls only while the Die
\* button is enabled
SpecView == Init /\ [][NextView]_vars

\* rolls only, no reset
SpecRolls == Init /\ [][rollDie]_vars

Spec == Init /\ [][Next]_vars

----------------------------------------------------------------------------
(* Properties.  A step with val' \in DieValues is a rollDie step that drew *)
(* val'; a step with val' = NULL that changes the state is a resetGame.    *)

IsRoll == val' \in DieValues

IsReset == val' = NULL

\* the roll put the mover on a track cell (a move of 1..6 cells never ends
\* on the cell it started from)
MoverPlaced ==
    /\ IsRoll
    /\ positions'[current] # BASE
    /\ positions'[current] # HOME
    /\ positions'[current] # positions[current]

\* the roll took the mover home
MoverWins == IsRoll /\ positions[current] # HOME /\ positions'[current] = HOME

\* C1: the two tokens never stand on the same track cell: when both
\* positions are on the track they differ.
C1_NoSharedCell ==
    (/\ positions[0] # BASE /\ positions[0] # HOME
     /\ positions[1] # BASE /\ positions[1] # HOME)
    => positions[0] # positions[1]

\* a capture has just happened: the capturing token stands on the track and
\* the captured one is back in base
C1_Witness ==
    \E p \in Players :
        /\ message = CapturedMessage(p)
        /\ val # NULL
        /\ positions[p] \in TrackIndices
        /\ positions[1 - p] = BASE

\* C2 as stated: a roll leaves currentPlayer unchanged exactly when it is a 6
\* that does not leave the mover HOME; every other roll, a winning one
\* included, flips currentPlayer.
C2_Original ==
    [][IsRoll =>
        (current' = current <=> (val' = 6 /\ positions'[current] # HOME))]_vars

\* C2 amended: a roll leaves currentPlayer unchanged exactly when it is a 6
\* that does not leave the mover HOME or when it takes the mover HOME (with
\* any value); every other roll (BASE with 1-5, a roll by a HOME player, a
\* non-6 move that stays on the track) flips currentPlayer.
C2_TurnRule ==
    [][IsRoll =>
        /\ (current' = current <=>
               \/ (val' = 6 /\ positions'[current] # HOME)
               \/ (positions[current] # HOME /\ positions'[current] = HOME))
        /\ (current' # current => current' = 1 - current)]_vars

\* a winning 6 has just been resolved and the winner is still to move
C2_Witness ==
    /\ val = 6
    /\ message = WinsMessage(current)
    /\ positions[current] = HOME
    /\ die = 6

\* C3: under rolls a position never goes HOME -> anything else, never
\* BASE -> HOME, and goes ON_TRACK(i) -> BASE only for the player who is not
\* rolling, in a roll that puts the roller on cell i.
C3_Progression ==
    [][IsRoll =>
        \A p \in Players :
            /\ (positions[p] = HOME => positions'[p] = HOME)
            /\ (positions[p] = BASE => positions'[p] # HOME)
            /\ (positions[p] \in TrackIndices /\ positions'[p] = BASE
                  => p # current /\ positions'[1 - p] = positions[p])
            /\ (positions[p] \in TrackIndices
                  => positions'[p] \in TrackIndices \cup {BASE, HOME})]_vars

\* a non-6 capture has just happened: the captured player is to move and is
\* back in base, the capturer is on the track
C3_Witness ==
    /\ val \in 1..5
    /\ message = CapturedMessage(1 - current)
    /\ positions[current] = BASE
    /\ positions[1 - current] \in TrackIndices

C6_BaseNeedsSix ==
    [][(IsRoll /\ positions[current] = BASE /\ val' \in 1..5) =>
        /\ positions' = positions
        /\ current' = 1 - current]_vars

\* a player in base has just rolled less than 6
C6_Witness ==
    /\ val \in 1..5
    /\ message = NeedsSixMessage(1 - current)
    /\ positions[1 - current] = BASE

\* C7: a 6 rolled by a player in BASE puts it on its entry cell (0 for
\* player 0, 14 for player 1) and keeps currentPlayer; from the initial
\* state the rolls 6, 3 leave player 0 on cell 0 with currentPlayer 0 and
\* then on cell 3 with currentPlayer 1.
C7_EnterOnSix ==
    [][IsRoll =>
        /\ (positions[current] = BASE /\ val' = 6 =>
               /\ positions'[current] = (IF current = 0 THEN 0 ELSE 14)
               /\ current' = current)
        /\ (positions = [p \in Players |-> BASE] /\ current = 0 /\ val' = 6 =>
               positions' = [p \in Players |-> IF p = 0 THEN 0 ELSE BASE]
               /\ current' = 0)
        /\ (positions = [p \in Players |-> IF p = 0 THEN 0 ELSE BASE]
              /\ current = 0 /\ val' = 3 =>
               positions' = [p \in Players |-> IF p = 0 THEN 3 ELSE BASE]
               /\ current' = 1)]_vars

\* player 1 has just entered on cell 14 with a 6 and is still to move
C7_Witness ==
    /\ val = 6
    /\ current = 1
    /\ positions[1] = 14
    /\ message = SixAgainMessage(1)

\* C8: under rolls a HOME position stays HOME, whoever rolls and whatever
\* the value; a roll by a player who is HOME changes no position and flips
\* currentPlayer.
C8_HomeTerminal ==
    [][IsRoll =>
        /\ \A p \in Players : (positions[p] = HOME => positions'[p] = HOME)
        /\ (positions[current] = HOME =>
               positions' = positions /\ current' = 1 - current)]_vars

\* a player who is home has just rolled a 6, and the opponent, on the track,
\* is to move
C8_Witness ==
    /\ val = 6
    /\ message = AlreadyHomeMessage(1 - current)
    /\ positions[1 - current] = HOME
    /\ positions[current] \in TrackIndices

\* C9: resetGame yields both positions BASE, currentPlayer 0 and no last
\* roll, from any state.
C9_Reset ==
    [][IsReset =>
        /\ positions' = [p \in Players |-> BASE]
        /\ current' = 0
        /\ die' = NULL]_vars

\* the game has just been reset
C9_Witness ==
    /\ message = NewGameMessage
    /\ val = NULL
    /\ positions = [p \in Players |-> BASE]
    /\ current = 0
    /\ die = NULL

OutcomeKinds ==
    {"needs_six", "already_home", "moved", "captured",
     "reached_home_wins", "rolled_six_again"}

\* C10 as stated: after every roll the message is one of the six outcome
\* kinds, and a move along the track with a value other than 6 that neither
\* captures nor wins leaves a "moved" message.
C10_Original ==
    [][IsRoll =>
        /\ message'.kind \in OutcomeKinds
        /\ ((/\ MoverPlaced
             /\ val' # 6
             /\ positions[current] \in TrackIndices
             /\ positions'[1 - current] = positions[1 - current])
            => message'.kind = "moved")]_vars

C12_Original ==
    [][(IsRoll /\ positions[current] \in 0..27) =>
        LET i == positions[current]
            entry == IF current = 0 THEN 0 ELSE 14
        IN (\E k \in 1..val' : (i + k) % 28 = entry)
             => positions'[current] = HOME]_vars

\* C13: a roll that sends the opponent from the track back to BASE leaves the
\* capture message naming the mover and the opponent, whatever the value.
C13_CaptureMessage ==
    [][(/\ IsRoll
        /\ positions[1 - current] \in 0..27
        /\ positions'[1 - current] = BASE) =>
        message' = [kind |-> "captured",
                    name |-> IF current = 0 THEN "Red" ELSE "Blue",
                    other |-> IF current = 0 THEN "Blue" ELSE "Red"]]_vars

\* a capture with a 6 has just happened: the capturer is still to move and
\* the message is the capture message
C13_Witness ==
    /\ val = 6
    /\ die = NULL
    /\ message.kind = "captured"
    /\ message.name = COLORS[current]
    /\ positions[current] \in TrackIndices
    /\ positions[1 - current] = BASE

C16_GameStopsOnWin ==
    /\ []((\E p \in {0, 1} : positions[p] = 999) =>
            /\ positions[current] = 999
            /\ positions[1 - current] # 999
            /\ ~ENABLED rollDieClick)
    /\ [][(/\ IsRoll
           /\ positions[current] # 999
           /\ positions'[current] = 999) => current' = current]_vars
    /\ [][(\E p \in {0, 1} : positions[p] = 999) =>
            /\ IsReset
            /\ positions' = [p \in {0, 1} |-> -1]
            /\ current' = 0]_vars

\* a player has just won with a value other than 6 while the opponent is on
\* the track; the winner is still the current player
C16_Witness ==
    \E p \in Players :
        /\ current = p
        /\ positions[p] = HOME
        /\ positions[1 - p] \in TrackIndices
        /\ message = WinsMessage(p)
        /\ val \in 1..5
        /\ ~canRoll

\* C17: after a roll the die shows the value rolled when the roll put no
\* token on a track cell (BASE with 1-5, a pass by a HOME player) or won;
\* after a roll that puts the mover on a track cell the die is unset.
C17_LastRoll ==
    [][IsRoll =>
        die' = IF /\ positions'[current] \in 0..27
                  /\ positions'[current] # positions[current]
               THEN NULL
               ELSE val']_vars

\* a player has just moved along the track with a 2 and the die is unset
C17_Witness ==
    /\ val = 2
    /\ die = NULL
    /\ positions[1 - current] \in TrackIndices
    /\ positions[current] = BASE
    /\ message.kind # "captured"

====
